---- MODULE Spec2Model ----
(***************************************************************************)
(* Model of the IBKR gateway bridge of ibkr_fast_mcp_server.py.            *)
(*                                                                         *)
(* Two execution contexts are modelled:                                    *)
(*   - the asyncio event loop thread, which runs the tool coroutines one   *)
(*     at a time and switches between them only at an `await` that really  *)
(*     suspends (asyncio.sleep);                                           *)
(*   - the draining thread (EClient.run), a real thread that invokes the   *)
(*     EWrapper callbacks of IBKRConnection at any moment, one at a time.  *)
(* Every statement of a tool that reads or writes state shared with the    *)
(* draining thread is a step of its own.                                   *)
(***************************************************************************)
EXTENDS Integers, Sequences, FiniteSets, TLC

\* ------------------------------------------------------------------ bounds
MaxCalls == 2      \* tool invocations in one behaviour (each is its own task)
MaxData == 2       \* data events the gateway sends for one request
MaxRetries == 4    \* largest max_retries passed to retry_with_backoff

\* --------------------------------------------------------------- constants
None == 0                                   \* Python None (ids start at 1)
Ports == <<4001, 7497>>                     \* candidate endpoints, in order
InfoCodes == {2104, 2106, 2158, 10089}      \* "Connection OK" error codes
ErrorCodes == InfoCodes \cup {200}          \* codes the gateway may send
ValidIds == {1}                             \* order ids the gateway may issue
ConnErrMsg == "Failed to connect to IBKR. Make sure TWS or IB Gateway is running and API connections are enabled."
SendErrMsg == "transport failure"

Tasks == 1..MaxCalls

VARIABLES
    ibkr_client,      \* the global: None or the index in conns of the object
    connection_lock,  \* threading.Lock: None (free) or the task holding it
    conns,            \* every IBKRConnection object constructed so far
    wire,             \* what the gateway still has to deliver, per connection
    running,          \* the task the event loop thread is executing, or None
    tasks,            \* per tool invocation: operation, position, locals
    ncalls,           \* tool invocations started so far
    placed,           \* orders the gateway has been handed, in order
    retry             \* the agent's retry_with_backoff call: arguments, position, log

vars == <<ibkr_client, connection_lock, conns, wire, running, tasks, ncalls, placed,
          retry>>

\* ------------------------------------------------------------ dictionaries
EmptyDict == [k \in {} |-> None]

DictSet(d, k, v) == [x \in (DOMAIN d) \cup {k} |-> IF x = k THEN v ELSE d[x]]

DictDel(d, k) == [x \in (DOMAIN d) \ {k} |-> d[x]]

\* ---------------------------------------------------------- IBKRConnection
\* IBKRConnection.__init__; `session` is the EClient part of the object: the
\* socket session the draining thread reads from.
NewConnection ==
    [ nextOrderId     |-> None,
      positions       |-> EmptyDict,
      account_info    |-> EmptyDict,
      market_data     |-> EmptyDict,
      orders          |-> EmptyDict,
      historical_data |-> EmptyDict,
      connected       |-> FALSE,
      data_received   |-> FALSE,
      session         |-> "closed" ]

\* The callbacks, as functions from the object to the object after the call.
\* Variant: a code that is not informational ends the connection.
error_Disconnects(c, errorCode) ==
    IF errorCode \in InfoCodes THEN c ELSE [c EXCEPT !.connected = FALSE]

error(c, errorCode) ==
    IF errorCode \in InfoCodes THEN c ELSE c

\* Variant: the event marks the connection ready and drops the id.
nextValidId_FlagOnly(c, orderId) ==
    [c EXCEPT !.connected = TRUE]

nextValidId(c, orderId) ==
    [c EXCEPT !.nextOrderId = orderId, !.connected = TRUE]

\* Variant: the acknowledgement is taken for readiness.
connectAck_SetsConnected(c) == [c EXCEPT !.connected = TRUE]

connectAck(c) == c

\* Variant: the close event leaves the flag as it is.
connectionClosed_KeepsFlag(c) == c

connectionClosed(c) ==
    [c EXCEPT !.connected = FALSE]

position(c, account, contract, pos, avgCost) ==
    LET key == <<contract.symbol, contract.secType, contract.exchange>> IN
    [c EXCEPT !.positions = DictSet(@, key,
        [ account     |-> account,
          symbol      |-> contract.symbol,
          secType     |-> contract.secType,
          exchange    |-> contract.exchange,
          position    |-> pos,
          avgCost     |-> avgCost,
          marketValue |-> pos * avgCost ])]

positionEnd(c) ==
    [c EXCEPT !.data_received = TRUE]

\* The stored entry is {value, currency}; `reqId` is kept beside it only to
\* tell which request delivered the field (the code drops the parameter).
accountSummary(c, reqId, account, tag, value, currency) ==
    [c EXCEPT !.account_info = DictSet(@, tag,
        [value |-> value, currency |-> currency, reqId |-> reqId])]

accountSummaryEnd(c, reqId) ==
    [c EXCEPT !.data_received = TRUE]

tickPrice(c, reqId, tickType, price) ==
    LET old == IF reqId \in DOMAIN c.market_data
               THEN c.market_data[reqId] ELSE EmptyDict IN
    [c EXCEPT !.market_data = DictSet(@, reqId, DictSet(old, tickType, price))]

orderStatus(c, orderId, status, filled, remaining, avgFillPrice, lastFillPrice) ==
    [c EXCEPT !.orders = DictSet(@, orderId,
        [ orderId       |-> orderId,
          status        |-> status,
          filled        |-> filled,
          remaining     |-> remaining,
          avgFillPrice  |-> avgFillPrice,
          lastFillPrice |-> lastFillPrice ])]

openOrder(c, orderId, contract, order, orderState) ==
    [c EXCEPT !.orders = DictSet(@, orderId,
        [ orderId       |-> orderId,
          symbol        |-> contract.symbol,
          secType       |-> contract.secType,
          exchange      |-> contract.exchange,
          action        |-> order.action,
          orderType     |-> order.orderType,
          totalQuantity |-> order.totalQuantity,
          lmtPrice      |-> order.lmtPrice,
          auxPrice      |-> order.auxPrice,
          status        |-> orderState.status ])]

openOrderEnd(c) ==
    [c EXCEPT !.data_received = TRUE]

\* `call` beside the bar tells which invocation's request delivered it.
historicalData(c, reqId, bar) ==
    LET old == IF reqId \in DOMAIN c.historical_data
               THEN c.historical_data[reqId] ELSE << >> IN
    [c EXCEPT !.historical_data = DictSet(@, reqId, Append(old, bar))]

historicalDataEnd(c, reqId) ==
    [c EXCEPT !.data_received = TRUE]

\* EClient.disconnect: ends the session; the library reports it through
\* connectionClosed when a session was open.
disconnect(c) ==
    IF c.session = "open"
    THEN [connectionClosed(c) EXCEPT !.session = "closed"]
    ELSE c

\* ------------------------------------------------------------ wire messages
Msg(o, type, reqId, call, i) ==
    [conn |-> o, type |-> type, reqId |-> reqId, call |-> call, i |-> i]

\* What the gateway sends once a socket session is accepted.
Handshake(o) == { Msg(o, "nextValidId", 0, 0, 0) }

WireWithout(o) == { m \in wire : m.conn # o }

\* No retry_with_backoff call is made (the server process has none).
NoRetry == [pc |-> "none"]

\* -------------------------------------------------------------------- tasks
IdleTask ==
    [ op        |-> "none",
      pc        |-> "idle",
      client    |-> None,     \* the tool's local `client`
      idx       |-> 0,        \* position in the candidate list
      connected |-> FALSE,    \* get_ibkr_connection's local `connected`
      ports     |-> << >>,    \* ports passed to connect() by this invocation
      created   |-> None,     \* object constructed by this invocation
      arg       |-> None,     \* the tool's arguments
      order_id  |-> None,     \* place_order's local `order_id`
      tmp       |-> None,     \* value read by `client.nextOrderId += 1`
      timedout  |-> {},       \* requests whose wait ran to its timeout
      early     |-> {},       \* requests whose wait the signal ended
      ended     |-> {},       \* requests whose terminal event was handled
      raised    |-> "",       \* message of the exception raised in the tool
      result    |-> [none |-> TRUE] ]

Init ==
    /\ ibkr_client = None
    /\ connection_lock = None
    /\ conns = << >>
    /\ wire = {}
    /\ running = None
    /\ tasks = [t \in Tasks |-> IdleTask]
    /\ ncalls = 0
    /\ placed = << >>
    /\ retry = NoRetry

Runs(t, pc) == running = t /\ tasks[t].pc = pc

\* Variant: the exception leaves the tool instead of becoming its result.
ToolExcept_Propagates(op, e) == [exception |-> e]

\* What a tool's `except Exception as e` clause returns.
ToolExcept(op, e) ==
    IF op = "connect_to_ibkr"
    THEN [success |-> FALSE, error |-> e, message |-> "Failed to connect to IBKR"]
    ELSE [error |-> e]

\* The tool returns `r`: the task ends and the event loop is free again.
Return(t, r) ==
    /\ tasks' = [tasks EXCEPT ![t].pc = "done", ![t].result = r]
    /\ running' = None

\* ------------------------------------------------------ get_ibkr_connection
\* The coroutine's frame ends: its locals are gone and the tool goes on with
\* the value returned.
Returned(task, value) ==
    [task EXCEPT !.pc = "body", !.client = value, !.idx = 0,
                 !.connected = FALSE, !.ports = << >>, !.created = None]

\* Variant: the block is entered without the guard.
Lock_NoGuard(t) ==
    /\ Runs(t, "lock")
    /\ connection_lock' = t
    /\ tasks' = [tasks EXCEPT ![t].pc = "check"]
    /\ UNCHANGED <<ibkr_client, conns, wire, running, ncalls, placed, retry>>

\* `with connection_lock:` a blocking acquire on the event loop thread.
Lock(t) ==
    /\ Runs(t, "lock")
    /\ connection_lock = None
    /\ connection_lock' = t
    /\ tasks' = [tasks EXCEPT ![t].pc = "check"]
    /\ UNCHANGED <<ibkr_client, conns, wire, running, ncalls, placed, retry>>

\* Variant: a connection is made on every call.
NeedsConnection_Always == TRUE

NeedsConnection ==
    ibkr_client = None \/ ~conns[ibkr_client].connected

\* `if ibkr_client is None or not ibkr_client.connected:` and, when it holds,
\* `ibkr_client = IBKRConnection()`; otherwise leave the block and return.
Check(t) ==
    /\ Runs(t, "check")
    /\ IF NeedsConnection
       THEN /\ conns' = Append(conns, NewConnection)
            /\ ibkr_client' = Len(conns) + 1
            /\ tasks' = [tasks EXCEPT ![t].pc = "connect", ![t].idx = 1,
                                      ![t].connected = FALSE,
                                      ![t].created = Len(conns) + 1]
            /\ UNCHANGED connection_lock
       ELSE /\ connection_lock' = None
            /\ tasks' = [tasks EXCEPT ![t] = Returned(@, ibkr_client)]
            /\ UNCHANGED <<ibkr_client, conns>>
    /\ UNCHANGED <<wire, running, ncalls, placed, retry>>

\* Variant: the loop gives up after the first candidate.
NextCandidate_GiveUp(idx) == [pc |-> "after_loop", idx |-> idx]

\* Where the for loop goes after candidate idx has failed.
NextCandidate(idx) ==
    IF idx < Len(Ports) THEN [pc |-> "connect", idx |-> idx + 1]
                        ELSE [pc |-> "after_loop", idx |-> idx]

\* `ibkr_client.connect("127.0.0.1", port, 0)` and the start of the draining
\* thread. The endpoint accepts the session, refuses it (the library reports
\* that through error() and returns), or connect raises.
ConnectAccepted(t) ==
    /\ Runs(t, "connect")
    /\ conns' = [conns EXCEPT ![ibkr_client] =
                    connectAck([@ EXCEPT !.session = "open"])]
    /\ wire' = wire \cup Handshake(ibkr_client)
    /\ tasks' = [tasks EXCEPT ![t].pc = "poll",
                              ![t].ports = Append(@, Ports[tasks[t].idx])]
    /\ UNCHANGED <<ibkr_client, connection_lock, running, ncalls, placed, retry>>

ConnectRefused(t) ==
    /\ Runs(t, "connect")
    /\ conns' = [conns EXCEPT ![ibkr_client] = error(@, 502)]
    /\ tasks' = [tasks EXCEPT ![t].pc = "poll",
                              ![t].ports = Append(@, Ports[tasks[t].idx])]
    /\ UNCHANGED <<ibkr_client, connection_lock, wire, running, ncalls, placed, retry>>

\* `except Exception as e:` logs and goes on with the next candidate.
ConnectRaises(t) ==
    /\ Runs(t, "connect")
    /\ LET n == NextCandidate(tasks[t].idx) IN
       tasks' = [tasks EXCEPT ![t].pc = n.pc, ![t].idx = n.idx,
                              ![t].ports = Append(@, Ports[tasks[t].idx])]
    /\ UNCHANGED <<ibkr_client, connection_lock, conns, wire, running, ncalls, placed, retry>>

\* `while not ibkr_client.connected and (time.time() - start_time) < timeout:`
\* the loop ends when the flag is set or the 30 seconds are over; otherwise
\* `await asyncio.sleep(0.1)` gives the event loop to other tasks.
PollReady(t) ==
    /\ Runs(t, "poll")
    /\ conns[ibkr_client].connected
    /\ tasks' = [tasks EXCEPT ![t].pc = "poll_exit"]
    /\ UNCHANGED <<ibkr_client, connection_lock, conns, wire, running, ncalls, placed, retry>>

PollTimeout(t) ==
    /\ Runs(t, "poll")
    /\ ~conns[ibkr_client].connected
    /\ tasks' = [tasks EXCEPT ![t].pc = "poll_exit"]
    /\ UNCHANGED <<ibkr_client, connection_lock, conns, wire, running, ncalls, placed, retry>>

PollSleep(t) ==
    /\ Runs(t, "poll")
    /\ ~conns[ibkr_client].connected
    /\ tasks' = [tasks EXCEPT ![t].pc = "poll_sleep"]
    /\ running' = None
    /\ UNCHANGED <<ibkr_client, connection_lock, conns, wire, ncalls, placed, retry>>

PollWake(t) ==
    /\ running = None
    /\ tasks[t].pc = "poll_sleep"
    /\ running' = t
    /\ tasks' = [tasks EXCEPT ![t].pc = "poll"]
    /\ UNCHANGED <<ibkr_client, connection_lock, conns, wire, ncalls, placed, retry>>

\* `if ibkr_client.connected:` connected = True; break / else: warning.
PollExit(t) ==
    /\ Runs(t, "poll_exit")
    /\ IF conns[ibkr_client].connected
       THEN tasks' = [tasks EXCEPT ![t].pc = "after_loop", ![t].connected = TRUE]
       ELSE tasks' = [tasks EXCEPT ![t].pc = "disconnect"]
    /\ UNCHANGED <<ibkr_client, connection_lock, conns, wire, running, ncalls, placed, retry>>

\* `ibkr_client.disconnect()` of the else branch, then the next candidate.
Disconnect(t) ==
    /\ Runs(t, "disconnect")
    /\ conns' = [conns EXCEPT ![ibkr_client] = disconnect(@)]
    /\ wire' = WireWithout(ibkr_client)
    /\ LET n == NextCandidate(tasks[t].idx) IN
       tasks' = [tasks EXCEPT ![t].pc = n.pc, ![t].idx = n.idx]
    /\ UNCHANGED <<ibkr_client, connection_lock, running, ncalls, placed, retry>>

\* `if not connected: raise ConnectionError(...)`, else `return ibkr_client`;
\* either way the with block is left and the lock released. Every tool
\* catches the exception and returns it as its result.
AfterLoop(t) ==
    /\ Runs(t, "after_loop")
    /\ connection_lock' = None
    /\ IF ~tasks[t].connected
       THEN /\ tasks' = [tasks EXCEPT ![t] =
                            [Returned(@, None) EXCEPT !.pc = "done",
                                !.raised = ConnErrMsg,
                                !.result = ToolExcept(tasks[t].op, ConnErrMsg)]]
            /\ running' = None
       ELSE /\ tasks' = [tasks EXCEPT ![t] = Returned(@, ibkr_client)]
            /\ UNCHANGED running
    /\ UNCHANGED <<ibkr_client, conns, wire, ncalls, placed, retry>>

get_ibkr_connection(t) ==
    \/ Lock(t)
    \/ Check(t)
    \/ ConnectAccepted(t)
    \/ ConnectRefused(t)
    \/ ConnectRaises(t)
    \/ PollReady(t)
    \/ PollTimeout(t)
    \/ PollSleep(t)
    \/ PollWake(t)
    \/ PollExit(t)
    \/ Disconnect(t)
    \/ AfterLoop(t)


\* ------------------------------------------------------------- the gateway
\* What the gateway holds; item i of a request's answer is built from it.
GwAccount == "DU12345"
Symbols == <<"AAPL", "MSFT", "IBM", "TSLA">>
Tags == <<"TotalCashValue", "NetLiquidation", "GrossPositionValue", "AvailableFunds">>
TickNames == <<"BID", "ASK", "LAST", "CLOSE">>

Pick(seq, i) == seq[((i - 1) % Len(seq)) + 1]

GwContract(i) == [symbol |-> Pick(Symbols, i), secType |-> "STK", exchange |-> "SMART"]

GwOrder(i) == [action |-> "BUY", orderType |-> "LMT", totalQuantity |-> 10 * i,
               lmtPrice |-> <<100 + i>>, auxPrice |-> << >>]

GwPrice(symbol, i) == (IF symbol = "AAPL" THEN 150 ELSE 300) + i

\* The request was sent by invocation `call`; i answers have been delivered.
Advance(m) == (wire \ {m}) \cup {[m EXCEPT !.i = m.i + 1]}

Ended(m) == [tasks EXCEPT ![m.call].ended = @ \cup {m.type}]

\* ------------------------------------------------------------ the draining
\* thread: one callback at a time, for a session that is open.
Open(m) == m \in wire /\ conns[m.conn].session = "open"

DrainNextValidId ==
    \E m \in wire, orderId \in ValidIds :
        /\ Open(m) /\ m.type = "nextValidId"
        /\ conns' = [conns EXCEPT ![m.conn] = nextValidId(@, orderId)]
        /\ wire' = wire \ {m}
        /\ UNCHANGED <<ibkr_client, connection_lock, running, tasks, ncalls, placed, retry>>

\* The gateway sends error events of any code at any time.
DrainError ==
    \E o \in 1..Len(conns), errorCode \in ErrorCodes :
        /\ conns[o].session = "open"
        /\ conns' = [conns EXCEPT ![o] = error(@, errorCode)]
        /\ UNCHANGED <<ibkr_client, connection_lock, wire, running, tasks, ncalls, placed, retry>>

\* The session ends from the gateway side: run() leaves its loop through
\* disconnect(), which calls connectionClosed; nothing more is delivered.
DrainConnectionClosed ==
    \E o \in 1..Len(conns) :
        /\ conns[o].session = "open"
        /\ conns' = [conns EXCEPT ![o] = disconnect(@)]
        /\ wire' = WireWithout(o)
        /\ UNCHANGED <<ibkr_client, connection_lock, running, tasks, ncalls, placed, retry>>

DrainPosition ==
    \E m \in wire :
        /\ Open(m) /\ m.type = "positions" /\ m.i < MaxData
        /\ conns' = [conns EXCEPT ![m.conn] =
                        position(@, GwAccount, GwContract(m.i + 1), 10 * (m.i + 1), 5)]
        /\ wire' = Advance(m)
        /\ UNCHANGED <<ibkr_client, connection_lock, running, tasks, ncalls, placed, retry>>

DrainPositionEnd ==
    \E m \in wire :
        /\ Open(m) /\ m.type = "positions" /\ m.i = MaxData
        /\ conns' = [conns EXCEPT ![m.conn] = positionEnd(@)]
        /\ wire' = wire \ {m}
        /\ tasks' = Ended(m)
        /\ UNCHANGED <<ibkr_client, connection_lock, running, ncalls, placed, retry>>

DrainAccountSummary ==
    \E m \in wire :
        /\ Open(m) /\ m.type = "accountSummary" /\ m.i < MaxData
        /\ conns' = [conns EXCEPT ![m.conn] =
                        accountSummary(@, m.reqId, GwAccount, Pick(Tags, m.i + 1),
                                       1000 * (m.i + 1), "USD")]
        /\ wire' = Advance(m)
        /\ UNCHANGED <<ibkr_client, connection_lock, running, tasks, ncalls, placed, retry>>

DrainAccountSummaryEnd ==
    \E m \in wire :
        /\ Open(m) /\ m.type = "accountSummary" /\ m.i = MaxData
        /\ conns' = [conns EXCEPT ![m.conn] = accountSummaryEnd(@, m.reqId)]
        /\ wire' = wire \ {m}
        /\ tasks' = Ended(m)
        /\ UNCHANGED <<ibkr_client, connection_lock, running, ncalls, placed, retry>>

DrainTickPrice ==
    \E m \in wire :
        /\ Open(m) /\ m.type = "mktData" /\ m.i < MaxData
        /\ conns' = [conns EXCEPT ![m.conn] =
                        tickPrice(@, m.reqId, Pick(TickNames, m.i + 1),
                                  GwPrice(tasks[m.call].arg.symbol, m.i + 1))]
        /\ wire' = Advance(m)
        /\ UNCHANGED <<ibkr_client, connection_lock, running, tasks, ncalls, placed, retry>>

DrainOpenOrder ==
    \E m \in wire :
        /\ Open(m) /\ m.type = "openOrders" /\ m.i < MaxData
        /\ conns' = [conns EXCEPT ![m.conn] =
                        openOrder(@, m.i + 1, GwContract(m.i + 1), GwOrder(m.i + 1),
                                  [status |-> "Submitted"])]
        /\ wire' = Advance(m)
        /\ UNCHANGED <<ibkr_client, connection_lock, running, tasks, ncalls, placed, retry>>

\* The status event that follows the openOrder event of an order.
DrainOrderStatus ==
    \E m \in wire :
        /\ Open(m) /\ m.type = "openOrders" /\ m.i >= 1
        /\ conns' = [conns EXCEPT ![m.conn] =
                        orderStatus(@, m.i, "Submitted", 0, 10 * m.i, 0, 0)]
        /\ UNCHANGED <<ibkr_client, connection_lock, wire, running, tasks, ncalls, placed, retry>>

DrainOpenOrderEnd ==
    \E m \in wire :
        /\ Open(m) /\ m.type = "openOrders" /\ m.i = MaxData
        /\ conns' = [conns EXCEPT ![m.conn] = openOrderEnd(@)]
        /\ wire' = wire \ {m}
        /\ tasks' = Ended(m)
        /\ UNCHANGED <<ibkr_client, connection_lock, running, ncalls, placed, retry>>

DrainHistoricalData ==
    \E m \in wire :
        /\ Open(m) /\ m.type = "historical" /\ m.i < MaxData
        /\ conns' = [conns EXCEPT ![m.conn] =
                        historicalData(@, m.reqId, [date |-> m.i + 1, call |-> m.call])]
        /\ wire' = Advance(m)
        /\ UNCHANGED <<ibkr_client, connection_lock, running, tasks, ncalls, placed, retry>>

DrainHistoricalDataEnd ==
    \E m \in wire :
        /\ Open(m) /\ m.type = "historical" /\ m.i = MaxData
        /\ conns' = [conns EXCEPT ![m.conn] = historicalDataEnd(@, m.reqId)]
        /\ wire' = wire \ {m}
        /\ tasks' = Ended(m)
        /\ UNCHANGED <<ibkr_client, connection_lock, running, ncalls, placed, retry>>

Drain ==
    \/ DrainNextValidId
    \/ DrainError
    \/ DrainConnectionClosed
    \/ DrainPosition
    \/ DrainPositionEnd
    \/ DrainAccountSummary
    \/ DrainAccountSummaryEnd
    \/ DrainTickPrice
    \/ DrainOpenOrder
    \/ DrainOrderStatus
    \/ DrainOpenOrderEnd
    \/ DrainHistoricalData
    \/ DrainHistoricalDataEnd

\* -------------------------------------------------------------------- tools
AcctReqId == 9001       \* get_account_summary
MetricsReqId == 9002    \* calculate_portfolio_metrics
MktReqId == 1001        \* get_market_data
HistReqId == 2001       \* get_historical_data

ToolNames ==
    { "get_open_orders", "get_all_orders", "get_connection_status",
      "connect_to_ibkr", "get_account_summary", "get_positions",
      "get_market_data", "place_order", "cancel_order", "get_order_status",
      "get_historical_data", "calculate_portfolio_metrics" }

\* The arguments callers pass.
NoArgs == [none |-> TRUE]

ArgsOf(op) ==
    CASE op \in {"get_market_data", "get_historical_data"} ->
            { [symbol |-> s] : s \in {"AAPL"} }
      [] op = "place_order" ->
            { [symbol |-> "AAPL", action |-> "BUY", quantity |-> 10,
               order_type |-> ot, limit_price |-> lp] :
              ot \in {"LMT"}, lp \in {<<150>>} }
      [] op \in {"cancel_order", "get_order_status"} ->
            { [order_id |-> id] : id \in {1} }
      [] OTHER -> { NoArgs }

FirstPc(op) == IF op = "get_connection_status" THEN "status" ELSE "lock"

\* A caller invokes a tool: the event loop starts its coroutine.
Call(t, op, arg) ==
    /\ running = None
    /\ tasks[t].pc = "idle"
    /\ t = ncalls + 1
    /\ ncalls' = ncalls + 1
    /\ running' = t
    /\ tasks' = [tasks EXCEPT ![t].op = op, ![t].pc = FirstPc(op), ![t].arg = arg]
    /\ UNCHANGED <<ibkr_client, connection_lock, conns, wire, placed, retry>>

Me(t) == tasks[t].client

Client(t) == conns[tasks[t].client]

\* One statement that writes the connection object: it becomes c2.
Update(t, pc, npc, c2) ==
    /\ Runs(t, pc)
    /\ conns' = [conns EXCEPT ![Me(t)] = c2]
    /\ tasks' = [tasks EXCEPT ![t].pc = npc]
    /\ UNCHANGED <<ibkr_client, connection_lock, wire, running, ncalls, placed, retry>>

\* client.reqX(...): the request reaches the gateway if the session is open
\* (the library only reports an error through error() when it is not).
Request(t, pc, npc, type, reqId) ==
    /\ Runs(t, pc)
    /\ wire' = IF Client(t).session = "open"
               THEN wire \cup {Msg(Me(t), type, reqId, t, 0)}
               ELSE wire
    /\ tasks' = [tasks EXCEPT ![t].pc = npc]
    /\ UNCHANGED <<ibkr_client, connection_lock, conns, running, ncalls, placed, retry>>

\* The call into the transport raises; the tool's except clause returns it.
Raises(t, pc) ==
    /\ Runs(t, pc)
    /\ tasks' = [tasks EXCEPT ![t].pc = "done", ![t].raised = SendErrMsg,
                              ![t].result = ToolExcept(tasks[t].op, SendErrMsg)]
    /\ running' = None
    /\ UNCHANGED <<ibkr_client, connection_lock, conns, wire, ncalls, placed, retry>>

\* client.data_received.wait(timeout=...): blocks the event loop thread until
\* the flag is set or the timeout is over.
WaitSignalled(t, pc, npc, type) ==
    /\ Runs(t, pc)
    /\ Client(t).data_received
    /\ tasks' = [tasks EXCEPT ![t].pc = npc, ![t].early = @ \cup {type}]
    /\ UNCHANGED <<ibkr_client, connection_lock, conns, wire, running, ncalls, placed, retry>>

\* Variant: a wait that runs to its timeout raises.
WaitTimeout_Raises(t, pc, npc, type) ==
    /\ Runs(t, pc)
    /\ ~Client(t).data_received
    /\ tasks' = [tasks EXCEPT ![t].pc = "done", ![t].timedout = @ \cup {type},
                              ![t].result = [error |-> "timed out"]]
    /\ running' = None
    /\ UNCHANGED <<ibkr_client, connection_lock, conns, wire, ncalls, placed, retry>>

WaitTimeout(t, pc, npc, type) ==
    /\ Runs(t, pc)
    /\ ~Client(t).data_received
    /\ tasks' = [tasks EXCEPT ![t].pc = npc, ![t].timedout = @ \cup {type}]
    /\ UNCHANGED <<ibkr_client, connection_lock, conns, wire, running, ncalls, placed, retry>>

\* return {...}
Finish(t, pc, r) ==
    /\ Runs(t, pc)
    /\ Return(t, r)
    /\ UNCHANGED <<ibkr_client, connection_lock, conns, wire, ncalls, placed, retry>>

DictGet(d, k, default) == IF k \in DOMAIN d THEN d[k] ELSE default

get_open_orders(t) ==
    /\ tasks[t].op = "get_open_orders"
    /\ \/ Update(t, "body", "clear_flag", [Client(t) EXCEPT !.orders = EmptyDict])
       \/ Update(t, "clear_flag", "send", [Client(t) EXCEPT !.data_received = FALSE])
       \/ Request(t, "send", "wait", "openOrders", None)
       \/ Raises(t, "send")
       \/ WaitSignalled(t, "wait", "ret", "openOrders")
       \/ WaitTimeout(t, "wait", "ret", "openOrders")
       \/ Finish(t, "ret", [open_orders |-> Client(t).orders,
                            total_open_orders |-> Cardinality(DOMAIN Client(t).orders)])

get_all_orders(t) ==
    /\ tasks[t].op = "get_all_orders"
    /\ \/ Update(t, "body", "clear_flag", [Client(t) EXCEPT !.orders = EmptyDict])
       \/ Update(t, "clear_flag", "send", [Client(t) EXCEPT !.data_received = FALSE])
       \/ Request(t, "send", "wait", "openOrders", None)
       \/ Raises(t, "send")
       \/ WaitSignalled(t, "wait", "ret", "openOrders")
       \/ WaitTimeout(t, "wait", "ret", "openOrders")
       \/ Finish(t, "ret", [all_orders |-> Client(t).orders,
                            total_orders |-> Cardinality(DOMAIN Client(t).orders)])

get_connection_status(t) ==
    /\ tasks[t].op = "get_connection_status"
    /\ IF ibkr_client = None
       THEN Finish(t, "status", [connected |-> FALSE, message |-> "No connection attempted"])
       ELSE Finish(t, "status",
                   [connected |-> conns[ibkr_client].connected,
                    next_order_id |-> conns[ibkr_client].nextOrderId,
                    positions_count |-> Cardinality(DOMAIN conns[ibkr_client].positions),
                    account_info_fields |-> DOMAIN conns[ibkr_client].account_info])

connect_to_ibkr(t) ==
    /\ tasks[t].op = "connect_to_ibkr"
    /\ Finish(t, "body", [success |-> TRUE, connected |-> Client(t).connected,
                          next_order_id |-> Client(t).nextOrderId,
                          message |-> "Successfully connected to IBKR"])

get_account_summary(t) ==
    /\ tasks[t].op = "get_account_summary"
    /\ \/ Update(t, "body", "clear_flag", [Client(t) EXCEPT !.account_info = EmptyDict])
       \/ Update(t, "clear_flag", "send", [Client(t) EXCEPT !.data_received = FALSE])
       \/ Request(t, "send", "wait", "accountSummary", AcctReqId)
       \/ Raises(t, "send")
       \/ WaitSignalled(t, "wait", "ret", "accountSummary")
       \/ WaitTimeout(t, "wait", "ret", "accountSummary")
       \/ Finish(t, "ret", [account_info |-> Client(t).account_info])

\* Variant: the signal is cleared after the request has been sent.
get_positions_ClearAfterSend(t) ==
    /\ tasks[t].op = "get_positions"
    /\ \/ Update(t, "body", "send", [Client(t) EXCEPT !.positions = EmptyDict])
       \/ Request(t, "send", "clear_flag", "positions", None)
       \/ Raises(t, "send")
       \/ Update(t, "clear_flag", "wait", [Client(t) EXCEPT !.data_received = FALSE])
       \/ WaitSignalled(t, "wait", "ret", "positions")
       \/ WaitTimeout(t, "wait", "ret", "positions")
       \/ Finish(t, "ret", [positions |-> Client(t).positions])

get_positions(t) ==
    /\ tasks[t].op = "get_positions"
    /\ \/ Update(t, "body", "clear_flag", [Client(t) EXCEPT !.positions = EmptyDict])
       \/ Update(t, "clear_flag", "send", [Client(t) EXCEPT !.data_received = FALSE])
       \/ Request(t, "send", "wait", "positions", None)
       \/ Raises(t, "send")
       \/ WaitSignalled(t, "wait", "ret", "positions")
       \/ WaitTimeout(t, "wait", "ret", "positions")
       \/ Finish(t, "ret", [positions |-> Client(t).positions])

\* `await asyncio.sleep(...)` is over: the event loop resumes the coroutine.
Wake(t, pc, npc) ==
    /\ running = None
    /\ tasks[t].pc = pc
    /\ running' = t
    /\ tasks' = [tasks EXCEPT ![t].pc = npc]
    /\ UNCHANGED <<ibkr_client, connection_lock, conns, wire, ncalls, placed, retry>>

\* reqMktData(1001, ...) and then `await asyncio.sleep(3)`.
MarketDataRequest(t) ==
    /\ Runs(t, "body")
    /\ wire' = IF Client(t).session = "open"
               THEN wire \cup {Msg(Me(t), "mktData", MktReqId, t, 0)}
               ELSE wire
    /\ tasks' = [tasks EXCEPT ![t].pc = "md_sleep"]
    /\ running' = None
    /\ UNCHANGED <<ibkr_client, connection_lock, conns, ncalls, placed, retry>>

\* cancelMktData(1001): the gateway stops the subscription with that id.
MarketDataCancel(t) ==
    /\ Runs(t, "md_cancel")
    /\ wire' = { m \in wire : ~(m.conn = Me(t) /\ m.type = "mktData"
                                /\ m.reqId = MktReqId) }
    /\ tasks' = [tasks EXCEPT ![t].pc = "ret"]
    /\ UNCHANGED <<ibkr_client, connection_lock, conns, running, ncalls, placed, retry>>

get_market_data(t) ==
    /\ tasks[t].op = "get_market_data"
    /\ \/ MarketDataRequest(t)
       \/ Raises(t, "body")
       \/ Wake(t, "md_sleep", "md_cancel")
       \/ MarketDataCancel(t)
       \/ Raises(t, "md_cancel")
       \/ Finish(t, "ret", [symbol |-> tasks[t].arg.symbol,
                            market_data |-> DictGet(Client(t).market_data,
                                                    MktReqId, EmptyDict)])

\* str.upper() on the strings callers pass.
Upper(s) ==
    CASE s = "lmt" -> "LMT"
      [] s = "mkt" -> "MKT"
      [] s = "buy" -> "BUY"
      [] s = "sell" -> "SELL"
      [] OTHER -> s

\* Optional[float]: << >> is None, <<p>> the price p; an Order() has no limit
\* price until one is assigned.
Unset == << >>

Truthy(limit_price) == limit_price # << >> /\ limit_price[1] # 0

\* Variant: a limit order without a price is given the price 0.
OrderOf_DefaultPrice(arg) ==
    [ action        |-> Upper(arg.action),
      totalQuantity |-> arg.quantity,
      orderType     |-> Upper(arg.order_type),
      lmtPrice      |-> IF Upper(arg.order_type) = "LMT"
                        THEN (IF Truthy(arg.limit_price) THEN arg.limit_price ELSE <<0>>)
                        ELSE Unset ]

\* The Order place_order builds from its arguments.
OrderOf(arg) ==
    [ action        |-> Upper(arg.action),
      totalQuantity |-> arg.quantity,
      orderType     |-> Upper(arg.order_type),
      lmtPrice      |-> IF Upper(arg.order_type) = "LMT" /\ Truthy(arg.limit_price)
                        THEN arg.limit_price ELSE Unset ]

\* What reaches the gateway through placeOrder / cancelOrder.
Submission(kind, o, orderId, call, order) ==
    [kind |-> kind, conn |-> o, orderId |-> orderId, call |-> call, order |-> order]

\* `if client.nextOrderId is None: return {"error": ...}`
PlaceOrderCheck(t) ==
    /\ Runs(t, "body")
    /\ IF Client(t).nextOrderId = None
       THEN Return(t, [error |-> "No valid order ID available"])
       ELSE tasks' = [tasks EXCEPT ![t].pc = "po_read"] /\ UNCHANGED running
    /\ UNCHANGED <<ibkr_client, connection_lock, conns, wire, ncalls, placed, retry>>

\* Variant: every order goes out under the first id.
PlaceOrderRead_FirstId(t) ==
    /\ Runs(t, "po_read")
    /\ tasks' = [tasks EXCEPT ![t].pc = "po_send", ![t].order_id = 1]
    /\ UNCHANGED <<ibkr_client, connection_lock, conns, wire, running, ncalls, placed, retry>>

\* `order_id = client.nextOrderId`
PlaceOrderRead(t) ==
    /\ Runs(t, "po_read")
    /\ tasks' = [tasks EXCEPT ![t].pc = "po_send",
                              ![t].order_id = Client(t).nextOrderId]
    /\ UNCHANGED <<ibkr_client, connection_lock, conns, wire, running, ncalls, placed, retry>>

\* `client.placeOrder(order_id, contract, order)`
PlaceOrderSend(t) ==
    /\ Runs(t, "po_send")
    /\ placed' = IF Client(t).session = "open"
                 THEN Append(placed, Submission("order", Me(t), tasks[t].order_id,
                                                t, OrderOf(tasks[t].arg)))
                 ELSE placed
    /\ tasks' = [tasks EXCEPT ![t].pc = "po_incr"]
    /\ UNCHANGED <<ibkr_client, connection_lock, conns, wire, running, ncalls, retry>>

\* `client.nextOrderId += 1` reads the attribute ...
PlaceOrderIncrRead(t) ==
    /\ Runs(t, "po_incr")
    /\ tasks' = [tasks EXCEPT ![t].pc = "po_store", ![t].tmp = Client(t).nextOrderId]
    /\ UNCHANGED <<ibkr_client, connection_lock, conns, wire, running, ncalls, placed, retry>>

\* Variant: the id is not advanced.
PlaceOrderIncrWrite_NoIncrement(t) ==
    /\ Runs(t, "po_store")
    /\ conns' = [conns EXCEPT ![Me(t)].nextOrderId = tasks[t].tmp]
    /\ tasks' = [tasks EXCEPT ![t].pc = "po_sleep"]
    /\ running' = None
    /\ UNCHANGED <<ibkr_client, connection_lock, wire, ncalls, placed, retry>>

\* ... and stores the sum; then `await asyncio.sleep(1)`.
PlaceOrderIncrWrite(t) ==
    /\ Runs(t, "po_store")
    /\ conns' = [conns EXCEPT ![Me(t)].nextOrderId = tasks[t].tmp + 1]
    /\ tasks' = [tasks EXCEPT ![t].pc = "po_sleep"]
    /\ running' = None
    /\ UNCHANGED <<ibkr_client, connection_lock, wire, ncalls, placed, retry>>

PlaceOrderReturn(t) ==
    /\ running = None
    /\ tasks[t].pc = "po_sleep"
    /\ tasks' = [tasks EXCEPT ![t].pc = "done", ![t].result =
                    [ order_id    |-> tasks[t].order_id,
                      symbol      |-> tasks[t].arg.symbol,
                      action      |-> tasks[t].arg.action,
                      quantity    |-> tasks[t].arg.quantity,
                      order_type  |-> tasks[t].arg.order_type,
                      limit_price |-> tasks[t].arg.limit_price,
                      status      |-> "submitted" ]]
    /\ UNCHANGED <<ibkr_client, connection_lock, conns, wire, running, ncalls, placed, retry>>

place_order(t) ==
    /\ tasks[t].op = "place_order"
    /\ \/ PlaceOrderCheck(t)
       \/ PlaceOrderRead(t)
       \/ PlaceOrderSend(t)
       \/ Raises(t, "po_send")
       \/ PlaceOrderIncrRead(t)
       \/ PlaceOrderIncrWrite(t)
       \/ PlaceOrderReturn(t)

\* Variant: an id without a local record is refused.
CancelOrderSend_ChecksLocal(t) ==
    /\ Runs(t, "body")
    /\ placed' = IF Client(t).session = "open"
                    /\ tasks[t].arg.order_id \in DOMAIN Client(t).orders
                 THEN Append(placed, Submission("cancel", Me(t), tasks[t].arg.order_id,
                                                t, NoArgs))
                 ELSE placed
    /\ Return(t, IF tasks[t].arg.order_id \in DOMAIN Client(t).orders
                 THEN [order_id |-> tasks[t].arg.order_id, status |-> "cancel_requested"]
                 ELSE [order_id |-> tasks[t].arg.order_id, status |-> "unknown_order"])
    /\ UNCHANGED <<ibkr_client, connection_lock, conns, wire, ncalls, retry>>

\* `client.cancelOrder(order_id, "")` and the return that follows it.
CancelOrderSend(t) ==
    /\ Runs(t, "body")
    /\ placed' = IF Client(t).session = "open"
                 THEN Append(placed, Submission("cancel", Me(t), tasks[t].arg.order_id,
                                                t, NoArgs))
                 ELSE placed
    /\ Return(t, [order_id |-> tasks[t].arg.order_id, status |-> "cancel_requested"])
    /\ UNCHANGED <<ibkr_client, connection_lock, conns, wire, ncalls, retry>>

cancel_order(t) ==
    /\ tasks[t].op = "cancel_order"
    /\ \/ CancelOrderSend(t)
       \/ Raises(t, "body")

get_order_status(t) ==
    /\ tasks[t].op = "get_order_status"
    /\ Finish(t, "body", [order_id |-> tasks[t].arg.order_id,
                          order_info |-> DictGet(Client(t).orders,
                                                 tasks[t].arg.order_id, EmptyDict)])

get_historical_data(t) ==
    /\ tasks[t].op = "get_historical_data"
    /\ \/ Update(t, "body", "clear_flag",
                 [Client(t) EXCEPT !.historical_data = DictDel(@, HistReqId)])
       \/ Update(t, "clear_flag", "send", [Client(t) EXCEPT !.data_received = FALSE])
       \/ Request(t, "send", "wait", "historical", HistReqId)
       \/ Raises(t, "send")
       \/ WaitSignalled(t, "wait", "ret", "historical")
       \/ WaitTimeout(t, "wait", "ret", "historical")
       \/ LET historical_bars == DictGet(Client(t).historical_data, HistReqId, << >>) IN
          Finish(t, "ret", [symbol |-> tasks[t].arg.symbol,
                            bars_count |-> Len(historical_bars),
                            historical_data |-> historical_bars])

RECURSIVE SumMarketValue(_, _)
SumMarketValue(positions, keys) ==
    IF keys = {} THEN 0
    ELSE LET k == CHOOSE x \in keys : TRUE IN
         positions[k].marketValue + SumMarketValue(positions, keys \ {k})

\* account_info.get(tag, {}).get('value', 0)
FieldValue(account_info, tag) ==
    IF tag \in DOMAIN account_info THEN account_info[tag].value ELSE 0

calculate_portfolio_metrics(t) ==
    /\ tasks[t].op = "calculate_portfolio_metrics"
    /\ \/ Update(t, "body", "clear_info", [Client(t) EXCEPT !.positions = EmptyDict])
       \/ Update(t, "clear_info", "clear_flag", [Client(t) EXCEPT !.account_info = EmptyDict])
       \/ Update(t, "clear_flag", "send", [Client(t) EXCEPT !.data_received = FALSE])
       \/ Request(t, "send", "wait", "positions", None)
       \/ Raises(t, "send")
       \/ WaitSignalled(t, "wait", "clear_flag2", "positions")
       \/ WaitTimeout(t, "wait", "clear_flag2", "positions")
       \/ Update(t, "clear_flag2", "send2", [Client(t) EXCEPT !.data_received = FALSE])
       \/ Request(t, "send2", "wait2", "accountSummary", MetricsReqId)
       \/ Raises(t, "send2")
       \/ WaitSignalled(t, "wait2", "ret", "accountSummary")
       \/ WaitTimeout(t, "wait2", "ret", "accountSummary")
       \/ Finish(t, "ret",
            [ total_positions       |-> Cardinality(DOMAIN Client(t).positions),
              total_market_value    |-> SumMarketValue(Client(t).positions,
                                                       DOMAIN Client(t).positions),
              cash_balance          |-> FieldValue(Client(t).account_info, "TotalCashValue"),
              net_liquidation_value |-> FieldValue(Client(t).account_info, "NetLiquidation"),
              buying_power          |-> FieldValue(Client(t).account_info, "AvailableFunds"),
              positions             |-> Client(t).positions,
              account_summary       |-> Client(t).account_info ])

\* --------------------------------------------------------------------- spec
Tool(t) ==
    \/ get_open_orders(t)
    \/ get_all_orders(t)
    \/ get_connection_status(t)
    \/ connect_to_ibkr(t)
    \/ get_account_summary(t)
    \/ get_positions(t)
    \/ get_market_data(t)
    \/ place_order(t)
    \/ cancel_order(t)
    \/ get_order_status(t)
    \/ get_historical_data(t)
    \/ calculate_portfolio_metrics(t)

Next ==
    \/ \E t \in Tasks, op \in ToolNames : \E arg \in ArgsOf(op) : Call(t, op, arg)
    \/ \E t \in Tasks : get_ibkr_connection(t)
    \/ \E t \in Tasks : Tool(t)
    \/ Drain

Spec == Init /\ [][Next]_vars

\* The connection supervisor alone: the tools that do nothing but acquire.
ConnTools == { "connect_to_ibkr", "get_connection_status", "get_market_data" }

NextConn ==
    \/ \E t \in Tasks, op \in ConnTools : \E arg \in ArgsOf(op) : Call(t, op, arg)
    \/ \E t \in Tasks : get_ibkr_connection(t)
    \/ \E t \in Tasks : connect_to_ibkr(t) \/ get_connection_status(t) \/ get_market_data(t)
    \/ DrainNextValidId \/ DrainError \/ DrainConnectionClosed \/ DrainTickPrice

SpecConn == Init /\ [][NextConn]_vars

\* The tools that wait on the completion signal.
WaitTools == { "get_open_orders", "get_all_orders", "get_account_summary",
               "get_positions", "get_historical_data", "calculate_portfolio_metrics" }

NextWait ==
    \/ \E t \in Tasks, op \in WaitTools : \E arg \in ArgsOf(op) : Call(t, op, arg)
    \/ \E t \in Tasks : get_ibkr_connection(t)
    \/ \E t \in Tasks :
          \/ get_open_orders(t) \/ get_all_orders(t) \/ get_account_summary(t)
          \/ get_positions(t) \/ get_historical_data(t)
          \/ calculate_portfolio_metrics(t)
    \/ DrainNextValidId \/ DrainError \/ DrainConnectionClosed
    \/ DrainPosition \/ DrainPositionEnd
    \/ DrainAccountSummary \/ DrainAccountSummaryEnd
    \/ DrainOpenOrder \/ DrainOrderStatus \/ DrainOpenOrderEnd
    \/ DrainHistoricalData \/ DrainHistoricalDataEnd

SpecWait == Init /\ [][NextWait]_vars

\* The arguments of the order and market-data tools over their cases: a limit
\* order without a price, with the price zero and (its type in lower case)
\* with a positive price, a market order with and without a price, an
\* order id the connection has a record of and one it has none of, two
\* symbols.
OrderCases ==
    { <<"LMT", Unset>>, <<"LMT", <<0>> >>, <<"lmt", <<150>> >>,
      <<"MKT", Unset>>, <<"MKT", <<150>> >> }

WideArgsOf(op) ==
    CASE op = "get_market_data" ->
            { [symbol |-> s] : s \in {"AAPL", "MSFT"} }
      [] op = "place_order" ->
            { [symbol |-> "AAPL", action |-> "BUY", quantity |-> 10,
               order_type |-> oc[1], limit_price |-> oc[2]] : oc \in OrderCases }
      [] op \in {"cancel_order", "get_order_status"} ->
            { [order_id |-> id] : id \in {1, 7} }
      [] OTHER -> { NoArgs }

\* The tools over the orders map, with the refresh that fills it.
OrderTools == { "cancel_order", "get_open_orders" }

NextOrder ==
    \/ \E t \in Tasks, op \in OrderTools : \E arg \in WideArgsOf(op) : Call(t, op, arg)
    \/ \E t \in Tasks : get_ibkr_connection(t)
    \/ \E t \in Tasks :
          \/ cancel_order(t) \/ get_open_orders(t)
    \/ DrainNextValidId \/ DrainError \/ DrainConnectionClosed
    \/ DrainOpenOrder \/ DrainOrderStatus \/ DrainOpenOrderEnd

SpecOrder == Init /\ [][NextOrder]_vars

\* place_order alone, over all its argument cases.
NextPlace ==
    \/ \E t \in Tasks : \E arg \in WideArgsOf("place_order") :
          Call(t, "place_order", arg)
    \/ \E t \in Tasks : get_ibkr_connection(t)
    \/ \E t \in Tasks : place_order(t)
    \/ DrainNextValidId \/ DrainError \/ DrainConnectionClosed

SpecPlace == Init /\ [][NextPlace]_vars

\* The market-data tool alone, called for either symbol.
NextMkt ==
    \/ \E t \in Tasks : \E arg \in WideArgsOf("get_market_data") :
          Call(t, "get_market_data", arg)
    \/ \E t \in Tasks : get_ibkr_connection(t)
    \/ \E t \in Tasks : get_market_data(t)
    \/ DrainNextValidId \/ DrainError \/ DrainConnectionClosed \/ DrainTickPrice

SpecMkt == Init /\ [][NextMkt]_vars

\* -------------------------------------------------------- retry_with_backoff
\* What func() raises, by the text of the exception.
Failures == { "Overloaded", "overloaded_error: try again", "rate limited" }

\* str(e).lower()
Lower(s) ==
    CASE s = "Overloaded" -> "overloaded"
      [] OTHER -> s

\* "overloaded" in <string>
HasOverloaded(s) == s \in { "overloaded", "overloaded_error: try again" }

BaseDelays == {1, 3}

\* The call retry_with_backoff(func, max_retries, base_delay) as it starts.
RetryStart(max_retries, base_delay) ==
    [ pc          |-> "for",
      max_retries |-> max_retries,
      base_delay  |-> base_delay,
      attempt     |-> 0,            \* the next value of range(max_retries)
      calls       |-> 0,            \* calls of func made
      errors      |-> << >>,        \* what the calls raised, in order
      delays      |-> << >>,        \* the arguments of asyncio.sleep, in order
      outcome     |-> [kind |-> "running"] ]

InitRetry ==
    /\ ibkr_client = None
    /\ connection_lock = None
    /\ conns = << >>
    /\ wire = {}
    /\ running = None
    /\ tasks = [t \in Tasks |-> IdleTask]
    /\ ncalls = 0
    /\ placed = << >>
    /\ retry \in { RetryStart(n, d) : n \in 0..MaxRetries, d \in BaseDelays }

Server == <<ibkr_client, connection_lock, conns, wire, running, tasks, ncalls, placed>>

\* `for attempt in range(max_retries)`: the next value, or the end of the
\* loop and of the function, which then returns None.
RetryFor ==
    /\ retry.pc = "for"
    /\ retry' = IF retry.attempt < retry.max_retries
                THEN [retry EXCEPT !.pc = "call"]
                ELSE [retry EXCEPT !.pc = "done", !.outcome = [kind |-> "fell_through"]]
    /\ UNCHANGED Server

\* `return await func()`, func returns.
RetryCallReturns ==
    /\ retry.pc = "call"
    /\ retry' = [retry EXCEPT !.pc = "done", !.calls = @ + 1,
                              !.outcome = [kind |-> "returned", value |-> "ok",
                                           attempt |-> retry.attempt]]
    /\ UNCHANGED Server

\* Variant: the delay grows by base_delay with each attempt.
RetryCallRaises_LinearDelay(e) ==
    /\ retry.pc = "call"
    /\ retry' = IF HasOverloaded(Lower(e)) /\ retry.attempt < retry.max_retries - 1
                THEN [retry EXCEPT !.pc = "sleep", !.calls = @ + 1,
                                   !.errors = Append(@, e),
                                   !.delays = Append(@, retry.base_delay * (retry.attempt + 1))]
                ELSE [retry EXCEPT !.pc = "done", !.calls = @ + 1,
                                   !.errors = Append(@, e),
                                   !.outcome = [kind |-> "raised", error |-> e]]
    /\ UNCHANGED Server

\* func raises e: sleep and go on, or `raise e`.
RetryCallRaises(e) ==
    /\ retry.pc = "call"
    /\ retry' = IF HasOverloaded(Lower(e)) /\ retry.attempt < retry.max_retries - 1
                THEN [retry EXCEPT !.pc = "sleep", !.calls = @ + 1,
                                   !.errors = Append(@, e),
                                   !.delays = Append(@, retry.base_delay * (2 ^ retry.attempt))]
                ELSE [retry EXCEPT !.pc = "done", !.calls = @ + 1,
                                   !.errors = Append(@, e),
                                   !.outcome = [kind |-> "raised", error |-> e]]
    /\ UNCHANGED Server

\* `await asyncio.sleep(delay)` is over.
RetryWake ==
    /\ retry.pc = "sleep"
    /\ retry' = [retry EXCEPT !.pc = "for", !.attempt = @ + 1]
    /\ UNCHANGED Server

NextRetry ==
    \/ RetryFor
    \/ RetryCallReturns
    \/ \E e \in Failures : RetryCallRaises(e)
    \/ RetryWake

SpecRetry == InitRetry /\ [][NextRetry]_vars

\* ------------------------------------------------------------------ claims
Done(t) == tasks[t].pc = "done"

Failed(t, e) == Done(t) /\ "error" \in DOMAIN tasks[t].result /\ tasks[t].result.error = e

\* Between connect and the end of polling of a candidate.
InLoop(t) == tasks[t].pc \in {"connect", "poll", "poll_sleep", "poll_exit", "disconnect"}

\* C1: at most one attempt sequence is in flight: never are two callers both
\* inside the candidate-endpoint loop of get_ibkr_connection.
C1_OneAttemptInFlight ==
    Cardinality({t \in Tasks : InLoop(t)}) <= 1

\* A second caller arrives while the first sleeps in its polling loop.
C1_Witness ==
    \E t1, t2 \in Tasks :
        /\ t1 # t2
        /\ tasks[t1].pc = "poll_sleep"
        /\ Runs(t2, "lock")

\* C2: a caller that arrives while the guard holder sleeps in its poll never
\* leaves the holder unable to resume: the event loop thread is never blocked
\* in the acquire of a guard held by a suspended coroutine.
C2_HolderCanResume ==
    \A t \in Tasks :
        Runs(t, "lock") => connection_lock = None

\* The ports passed to connect so far are a prefix of the candidate list, and
\* the loop is left without success only when all of it has been tried.
C3_PortsInOrder ==
    \A t \in Tasks :
        /\ Len(tasks[t].ports) <= Len(Ports)
        /\ \A i \in 1..Len(tasks[t].ports) : tasks[t].ports[i] = Ports[i]
        /\ tasks[t].pc = "after_loop" /\ ~tasks[t].connected => tasks[t].ports = Ports

\* Leaving the loop without success raises the connection error, and that
\* error is raised nowhere else.
C3_FailsAfterBoth ==
    \A t \in Tasks :
        /\ tasks[t].pc = "after_loop" /\ ~tasks[t].connected /\ tasks'[t] # tasks[t]
              => tasks'[t].pc = "done" /\ tasks'[t].result.error = ConnErrMsg
        /\ ~Failed(t, ConnErrMsg) /\ Failed(t, ConnErrMsg)'
              => tasks[t].pc = "after_loop" /\ tasks[t].ports = <<4001, 7497>>

\* C3: get_ibkr_connection passes the candidates to connect in the declared
\* order, at most two of them, and raises the connection error exactly when
\* both, 4001 and then 7497, have been tried without success.
C3_FailoverExactlyTwo == []C3_PortsInOrder /\ [][C3_FailsAfterBoth]_vars

C3_Witness == \E t \in Tasks : Failed(t, ConnErrMsg)

\* Invocation t reads the stored connection under the guard and finds it
\* connected.
C4_CheckedConnected(t) ==
    /\ Runs(t, "check")
    /\ ibkr_client # None
    /\ conns[ibkr_client].connected
    /\ tasks'[t] # tasks[t]

C5_OnlyNextValidIdConnects ==
    [][/\ \A o \in 1..Len(conns) :
            ~conns[o].connected /\ conns'[o].connected => DrainNextValidId
       /\ \A o \in (Len(conns) + 1)..Len(conns') : ~conns'[o].connected]_vars

C5_Witness ==
    \E o \in 1..Len(conns) : conns[o].connected /\ conns[o].session = "open"

\* A connection whose session has ended is not connected.
C6_ClosedIsNotConnected ==
    \A o \in 1..Len(conns) : conns[o].session = "closed" => ~conns[o].connected

\* Reading a stored connection whose session has ended starts a new attempt
\* sequence on a new object.
C6_FreshAttempt ==
    \A t \in Tasks :
        /\ Runs(t, "check")
        /\ ibkr_client # None
        /\ conns[ibkr_client].session = "closed"
        /\ tasks'[t] # tasks[t]
        => /\ ibkr_client' = Len(conns) + 1
           /\ Len(conns') = Len(conns) + 1
           /\ conns'[ibkr_client'] = NewConnection
           /\ tasks'[t].pc = "connect"
           /\ tasks'[t].idx = 1

\* C6: a connection whose session has ended (by connectionClosed, or by the
\* disconnect of a failed candidate) has connected = false, and the next
\* get_ibkr_connection that reads it makes a new object and goes on to
\* connect instead of returning it.
C6_ReacquiresAfterClose == []C6_ClosedIsNotConnected /\ [][C6_FreshAttempt]_vars

\* The first connection was ready and is closed; the next call is about to
\* connect a second object.
C6_Witness ==
    /\ Len(conns) = 2
    /\ conns[1].nextOrderId # None
    /\ ~conns[1].connected
    /\ \E t \in Tasks : tasks[t].pc = "connect" /\ tasks[t].created = 2

\* The tools with one request and one wait.
TimeoutTools == { "get_positions", "get_account_summary", "get_open_orders",
                  "get_all_orders", "get_historical_data" }

BufferOf(op, c) ==
    CASE op = "get_positions" -> c.positions
      [] op = "get_account_summary" -> c.account_info
      [] op \in {"get_open_orders", "get_all_orders"} -> c.orders
      [] op = "get_historical_data" -> DictGet(c.historical_data, HistReqId, << >>)

DataOf(op, r) ==
    CASE op = "get_positions" -> r.positions
      [] op = "get_account_summary" -> r.account_info
      [] op = "get_open_orders" -> r.open_orders
      [] op = "get_all_orders" -> r.all_orders
      [] op = "get_historical_data" -> r.historical_data

\* After the timeout the tool only builds and returns its result, no error.
C7_TimedOutIsNoError ==
    \A t \in Tasks :
        tasks[t].op \in TimeoutTools /\ tasks[t].timedout # {}
            => /\ tasks[t].pc \in {"ret", "done"}
               /\ Done(t) => "error" \notin DOMAIN tasks[t].result

\* The result holds the buffer as it is when the tool returns.
C7_ReturnsBuffer ==
    \A t \in Tasks :
        tasks[t].op \in TimeoutTools /\ tasks[t].timedout # {} /\ ~Done(t) /\ Done(t)'
            => DataOf(tasks[t].op, tasks'[t].result) = BufferOf(tasks[t].op, Client(t))

\* C7: a get_positions, get_account_summary, get_open_orders, get_all_orders
\* or get_historical_data whose wait ran to its timeout returns a result that
\* is no error and holds the buffer as the callbacks have filled it so far.
C7_TimeoutReturnsPartial == []C7_TimedOutIsNoError /\ [][C7_ReturnsBuffer]_vars

\* A get_positions that timed out with one of the positions delivered.
C7_Witness ==
    \E t \in Tasks :
        /\ Done(t)
        /\ tasks[t].op = "get_positions"
        /\ tasks[t].timedout # {}
        /\ Cardinality(DOMAIN tasks[t].result.positions) = 1

\* C8: a wait ends before its timeout only when the terminal event of the
\* waiting operation's own request has been handled.
C8_OwnTerminalEventOnly ==
    \A t \in Tasks : tasks[t].early \subseteq tasks[t].ended

\* C9: the account_info a get_account_summary returns holds only fields
\* delivered by accountSummary events of request 9001.
C9_NoCrossContamination ==
    \A t \in Tasks :
        Done(t) /\ tasks[t].op = "get_account_summary"
                /\ "account_info" \in DOMAIN tasks[t].result
            => \A tag \in DOMAIN tasks[t].result.account_info :
                  tasks[t].result.account_info[tag].reqId = AcctReqId

\* C10: every tool ends by returning a result; a failure raised while it
\* acquired the connection or sent a request is that result's error field.
C10_FailuresAreResults ==
    \A t \in Tasks :
        Done(t) =>
            /\ "none" \notin DOMAIN tasks[t].result
            /\ "exception" \notin DOMAIN tasks[t].result
            /\ tasks[t].raised # "" =>
                  /\ "error" \in DOMAIN tasks[t].result
                  /\ tasks[t].result.error = tasks[t].raised

\* One tool returned the connection error, another a failure of its send.
C10_Witness ==
    \E t1, t2 \in Tasks :
        /\ Failed(t1, ConnErrMsg) /\ tasks[t1].raised = ConnErrMsg
        /\ Failed(t2, SendErrMsg) /\ tasks[t2].raised = SendErrMsg

\* The orders invocation t has handed to the gateway.
SubmittedBy(t) ==
    { i \in 1..Len(placed) : placed[i].kind = "order" /\ placed[i].call = t }

\* Invocation t of place_order has returned its acknowledgement.
Acknowledged(t) ==
    Done(t) /\ tasks[t].op = "place_order" /\ "order_id" \in DOMAIN tasks[t].result

\* C11: place_order with nextOrderId unset returns the no-valid-order-id
\* error and submits nothing; otherwise placeOrder is called once, under the
\* value nextOrderId has at that moment, the increment leaves nextOrderId one
\* greater than that value, and the acknowledgement carries that value as
\* order_id with status "submitted".
C11_SubmitsUnderNextId ==
    [][\A t \in Tasks : tasks[t].op = "place_order" =>
        /\ (tasks[t].pc = "body" /\ tasks'[t].pc # "body"
                /\ Client(t).nextOrderId = None)
              => /\ Failed(t, "No valid order ID available")'
                 /\ placed' = placed
        /\ (tasks[t].pc = "body" /\ tasks'[t].pc # "body"
                /\ Client(t).nextOrderId # None)
              => tasks'[t].pc = "po_read" /\ placed' = placed
        /\ (tasks[t].pc = "po_send" /\ tasks'[t].pc = "po_incr"
                /\ Client(t).session = "open")
              => /\ Len(placed') = Len(placed) + 1
                 /\ SubSeq(placed', 1, Len(placed)) = placed
                 /\ placed'[Len(placed')].kind = "order"
                 /\ placed'[Len(placed')].call = t
                 /\ placed'[Len(placed')].conn = Me(t)
                 /\ placed'[Len(placed')].orderId = Client(t).nextOrderId
        /\ (tasks[t].pc = "po_store" /\ tasks'[t].pc = "po_sleep")
              => conns'[Me(t)].nextOrderId = tasks[t].order_id + 1
        /\ (tasks[t].pc = "po_sleep" /\ tasks'[t].pc = "done")
              => /\ tasks'[t].result.order_id = tasks[t].order_id
                 /\ tasks'[t].result.status = "submitted"
                 /\ Cardinality(SubmittedBy(t)) <= 1
                 /\ \A i \in SubmittedBy(t) : placed[i].orderId = tasks[t].order_id
                 /\ Client(t).session = "open" => SubmittedBy(t) # {}
    ]_vars

C11_Witness ==
    \E t \in Tasks :
        /\ Acknowledged(t)
        /\ tasks[t].result.order_id = 1
        /\ \E i \in SubmittedBy(t) : placed[i].orderId = 1
        /\ Client(t).nextOrderId = 2

\* C12: an order submitted by place_order carries either no limit price or
\* the limit price the caller gave; a call with order type LMT and no
\* limit_price submits an order without a limit price.
C12_NoInventedLimitPrice ==
    \A i \in 1..Len(placed) : placed[i].kind = "order" =>
        LET arg == tasks[placed[i].call].arg IN
        /\ placed[i].order.lmtPrice \in {Unset, arg.limit_price}
        /\ arg.limit_price = Unset => placed[i].order.lmtPrice = Unset

C12_Witness ==
    \E i \in 1..Len(placed) :
        /\ placed[i].kind = "order"
        /\ placed[i].order.orderType = "LMT"
        /\ tasks[placed[i].call].arg.limit_price = Unset
        /\ placed[i].order.lmtPrice = Unset

\* C13: the limit_price of the acknowledgement place_order returns equals
\* the limit price set on the order it submitted.
C13_AckMatchesOrder ==
    \A t \in Tasks : Acknowledged(t) =>
        \A i \in SubmittedBy(t) : tasks[t].result.limit_price = placed[i].order.lmtPrice

\* C14: a cancel_order whose cancel request is sent returns status
\* "cancel_requested" with the id it was given, whatever the orders map
\* holds, hands exactly that cancel to the gateway and leaves every
\* connection object, the orders map included, as it was.
C14_CancelIgnoresLocalState ==
    [][\A t \in Tasks :
        (tasks[t].op = "cancel_order" /\ tasks[t].pc = "body"
            /\ tasks'[t].pc = "done" /\ tasks'[t].raised = "")
        => /\ tasks'[t].result = [order_id |-> tasks[t].arg.order_id,
                                  status |-> "cancel_requested"]
           /\ conns' = conns
           /\ Client(t).session = "open" =>
                 placed' = Append(placed, Submission("cancel", Me(t),
                                      tasks[t].arg.order_id, t, NoArgs))
    ]_vars

C14_Witness ==
    \E t \in Tasks :
        /\ Done(t) /\ tasks[t].op = "cancel_order"
        /\ "status" \in DOMAIN tasks[t].result
        /\ tasks[t].result.status = "cancel_requested"
        /\ tasks[t].arg.order_id \in DOMAIN Client(t).orders
        /\ \E i \in 1..Len(placed) : placed[i].kind = "cancel" /\ placed[i].call = t

\* The market-data subscriptions and data requests the gateway still serves.
Outstanding(o, reqId) == { m \in wire : m.conn = o /\ m.reqId = reqId }

\* C15: no get_market_data call has returned while the subscription it
\* opened is still open on the gateway.
C15_CancelledBeforeReturn ==
    \A t \in Tasks : (Done(t) /\ tasks[t].op = "get_market_data") =>
        ~ \E m \in wire : m.type = "mktData" /\ m.call = t

\* Invocation t of get_positions has returned positions from a connection
\* whose session is still open.
ReadPositions(t) ==
    /\ Done(t) /\ tasks[t].op = "get_positions"
    /\ "positions" \in DOMAIN tasks[t].result
    /\ Client(t).session = "open"

\* C16: two get_positions calls on one connection, with the positions the
\* gateway holds unchanged, return the same positions.
C16_RepeatedReadIdentical ==
    \A t1, t2 \in Tasks :
        (ReadPositions(t1) /\ ReadPositions(t2) /\ Me(t1) = Me(t2))
        => tasks[t1].result.positions = tasks[t2].result.positions

\* C17: every bar get_historical_data returns was delivered for the request
\* of that very call.
C17_OwnBarsOnly ==
    \A t \in Tasks :
        (Done(t) /\ tasks[t].op = "get_historical_data"
            /\ "historical_data" \in DOMAIN tasks[t].result)
        => \A i \in 1..Len(tasks[t].result.historical_data) :
              tasks[t].result.historical_data[i].call = t

\* No get_market_data call is between its request and its return.
NoMarketDataCallActive ==
    \A u \in Tasks : tasks[u].op = "get_market_data" => tasks[u].pc \in {"idle", "done"}

\* C18: once a get_market_data call has returned its ticks and no other such
\* call is under way, the tick mapping under id 1001 of its connection is
\* empty, so that a later call starts without the ticks of an earlier symbol.
C18_BufferClearedOnCancel ==
    \A t \in Tasks :
        (Done(t) /\ tasks[t].op = "get_market_data"
            /\ "market_data" \in DOMAIN tasks[t].result
            /\ NoMarketDataCallActive)
        => DictGet(Client(t).market_data, MktReqId, EmptyDict) = EmptyDict

\* The fields of an order record that describe the order itself.
OrderFields == {"symbol", "action", "orderType", "totalQuantity"}

\* C19: an order record stays in the orders map of its connection, and no
\* step takes a descriptive field away from it or changes one.
C19_RecordsPersist ==
    [][\A o \in 1..Len(conns) : \A id \in DOMAIN conns[o].orders :
          /\ id \in DOMAIN conns'[o].orders
          /\ \A f \in OrderFields \cap DOMAIN conns[o].orders[id] :
                /\ f \in DOMAIN conns'[o].orders[id]
                /\ conns'[o].orders[id][f] = conns[o].orders[id][f]
    ]_vars

\* C20: a request is sent under an id only when no earlier request under
\* that id is still outstanding on the connection.
C20_OneRequestPerId ==
    [][\A m \in wire' \ wire :
          (m.i = 0 /\ m.reqId \in {MktReqId, HistReqId, AcctReqId, MetricsReqId})
          => Outstanding(m.conn, m.reqId) = {}
    ]_vars

\* C21: while a tool waits on the completion signal, the event loop can start
\* another tool operation.
C21_OthersStartDuringWait ==
    \A t \in Tasks :
        (tasks[t].pc \in {"wait", "wait2"} /\ ncalls < MaxCalls)
        => ENABLED (\E u \in Tasks, op \in WaitTools : \E arg \in ArgsOf(op) :
                        Call(u, op, arg))

\* The call of retry_with_backoff is over.
RetryDone == retry.pc = "done"

\* func is called at most max_retries times; the k-th wait (k from 0) is of
\* base_delay * 2^k and follows an "overloaded" failure of attempt k with
\* attempts remaining; a failure that ends the call is raised as it is, and
\* a success ends the call with its value after failures only.
C22_Bookkeeping ==
    /\ retry.pc # "none"
    /\ retry.calls <= retry.max_retries
    /\ Len(retry.delays) <= Len(retry.errors)
    /\ \A k \in 0..(Len(retry.delays) - 1) :
          /\ retry.delays[k + 1] = retry.base_delay * (2 ^ k)
          /\ HasOverloaded(Lower(retry.errors[k + 1]))
          /\ k < retry.max_retries - 1
    /\ (RetryDone /\ retry.outcome.kind = "raised")
          => /\ retry.calls = Len(retry.errors)
             /\ retry.outcome.error = retry.errors[Len(retry.errors)]
             /\ Len(retry.delays) = retry.calls - 1
             /\ \/ retry.calls = retry.max_retries
                \/ ~HasOverloaded(Lower(retry.outcome.error))
    /\ (RetryDone /\ retry.outcome.kind = "returned")
          => /\ retry.calls = Len(retry.errors) + 1
             /\ Len(retry.delays) = Len(retry.errors)
             /\ retry.outcome.value = "ok"
    /\ (RetryDone /\ retry.outcome.kind = "fell_through") => retry.max_retries = 0

\* C22: retry_with_backoff calls func at most max_retries times, waits
\* base_delay * 2^k after the k-th "overloaded" failure while attempts
\* remain, raises the last failure unchanged, and returns the value of the
\* first success without a further call.
C22_RetryWithBackoff ==
    /\ []C22_Bookkeeping
    /\ [][RetryDone => retry' = retry]_vars

C22_Witness ==
    /\ RetryDone
    /\ retry.max_retries = 4 /\ retry.base_delay = 3
    /\ retry.calls = 4
    /\ retry.delays = <<3, 6, 12>>
    /\ retry.outcome = [kind |-> "raised", error |-> "Overloaded"]

\* C23: within an attempt sequence, the step that goes on from the first
\* candidate to the second is the call of disconnect.
C23_DisconnectBeforeNext ==
    [][\A t \in Tasks :
          (tasks[t].idx = 1 /\ tasks'[t].idx = 2) => tasks[t].pc = "disconnect"
    ]_vars

\* The codes the error callback is called with.
AnyErrorCode == ErrorCodes \cup {502}

\* C24: the error callback, with an informational code or any other, leaves
\* every connection as it is: connected, nextOrderId, the buffers and the
\* completion signal, so that a request that is pending stays pending.
C24_ErrorChangesNothing ==
    \A o \in 1..Len(conns) : \A errorCode \in AnyErrorCode :
        LET c == error(conns[o], errorCode) IN
        /\ c.connected = conns[o].connected
        /\ c.nextOrderId = conns[o].nextOrderId
        /\ c.data_received = conns[o].data_received
        /\ <<c.positions, c.account_info, c.market_data, c.orders, c.historical_data>>
             = <<conns[o].positions, conns[o].account_info, conns[o].market_data,
                 conns[o].orders, conns[o].historical_data>>

\* A request is pending on an open, connected session with data in the
\* buffer; the gateway may send an error event there.
C24_Witness ==
    \E t \in Tasks :
        /\ tasks[t].op = "get_open_orders" /\ tasks[t].pc = "wait"
        /\ Client(t).session = "open" /\ Client(t).connected
        /\ ~Client(t).data_received
        /\ Client(t).orders # EmptyDict

\* The shared collections of a connection.
Collections(c) ==
    <<c.positions, c.account_info, c.orders, c.market_data, c.historical_data>>

\* C25: a shared collection changes only in a step of the draining thread,
\* never in a step of a tool operation.
C25_OnlyCallbacksWrite ==
    [][\A o \in 1..Len(conns) :
          Collections(conns'[o]) # Collections(conns[o]) => tasks' = tasks
    ]_vars

\* C26: a connection that is or has been connected has nextOrderId set, it
\* stays set, and place_order never returns the no-valid-order-id error.
C26_ConnectedHasOrderId ==
    /\ [](\A o \in 1..Len(conns) :
            conns[o].connected => conns[o].nextOrderId # None)
    /\ [](\A t \in Tasks : tasks[t].op = "place_order"
            => ~Failed(t, "No valid order ID available"))
    /\ [][\A o \in 1..Len(conns) :
            conns[o].nextOrderId # None => conns'[o].nextOrderId # None]_vars

C26_Witness ==
    \E t \in Tasks :
        /\ Acknowledged(t)
        /\ ~Client(t).connected
        /\ Client(t).nextOrderId # None

\* The orders handed to the gateway on connection o, in submission order.
OrdersOn(o) == SelectSeq(placed, LAMBDA x : x.kind = "order" /\ x.conn = o)

WaitingFor(t) ==
    CASE tasks[t].op \in {"get_open_orders", "get_all_orders"} -> "openOrders"
      [] tasks[t].op = "get_account_summary" -> "accountSummary"
      [] tasks[t].op = "get_positions" -> "positions"
      [] tasks[t].op = "get_historical_data" -> "historical"
      [] tasks[t].op = "calculate_portfolio_metrics" ->
            IF tasks[t].pc \in {"wait2", "ret"} THEN "accountSummary" ELSE "positions"
      [] OTHER -> "none"

\* The terminal event of the request invocation t waits for has been
\* delivered and the wait has not returned yet: the signal is set.
C28_TerminalEventKept ==
    \A t \in Tasks :
        (tasks[t].pc \in {"wait", "wait2"} /\ WaitingFor(t) \in tasks[t].ended)
        => Client(t).data_received

\* The signal is cleared only by the statement before a send, and a wait
\* runs to its timeout only when its terminal event has not been delivered.
C28_ClearedBeforeSend ==
    /\ \A o \in 1..Len(conns) :
          (conns[o].data_received /\ ~conns'[o].data_received)
          => \E t \in Tasks :
                /\ running = t /\ Me(t) = o
                /\ tasks[t].pc \in {"clear_flag", "clear_flag2"}
                /\ tasks'[t].pc \in {"send", "send2"}
    /\ \A t \in Tasks :
          (tasks[t].pc \in {"wait", "wait2"}
              /\ WaitingFor(t) \in tasks'[t].timedout \ tasks[t].timedout)
          => WaitingFor(t) \notin tasks[t].ended

\* C28: in every tool that waits, the signal is cleared before the request
\* is sent and not between the send and the wait: a terminal event delivered
\* after the send is not erased and the wait returns without its timeout.
C28_SignalNotErased ==
    /\ []C28_TerminalEventKept
    /\ [][C28_ClearedBeforeSend]_vars

C28_Witness ==
    \E t \in Tasks :
        /\ tasks[t].op = "calculate_portfolio_metrics" /\ tasks[t].pc = "wait2"
        /\ "positions" \in tasks[t].early
        /\ "accountSummary" \in tasks[t].ended
        /\ Client(t).data_received

====
